---- MODULE Spec2Model ----
(***************************************************************************)
(* A model of the type-checking and evaluation kernel of hubris            *)
(* (src/hubris/typeck/mod.rs): the global environment TyCtxt, its          *)
(* declaration, lookup and merge operations, the evaluator, definitional   *)
(* equality and the bidirectional checker; and of the tokenizer of         *)
(* hubris_syntax (src/hubris_syntax/src/tok/mod.rs).                       *)
(*                                                                         *)
(* Terms are tuples whose first component is the variant tag:              *)
(*   <<"Type">>                    Term::Type                              *)
(*   <<"Literal", l>>              Term::Literal, l \in {"Unit", "Int"}    *)
(*   <<"Var", n>>                  Term::Var { name }                      *)
(*   <<"App", f, a>>               Term::App { fun, arg, span }            *)
(*   <<"Lambda", ty, body>>        Term::Lambda { name, ty, body, span }   *)
(*   <<"Forall", ty, term>>        Term::Forall { name, ty, term, span }   *)
(*   <<"Recursor", d, off, ts>>    Term::Recursor(ty_name, offset, ts)     *)
(* and names are                                                           *)
(*   <<"Qual", s>>                 Name::Qual, s the dotted path           *)
(*   <<"DB", i>>                   Name::DeBruijn { index, repr }          *)
(*   <<"Local", k, ty>>            Name::Local { number, ty, repr }        *)
(* Spans and binder hints (repr, the binder's name) are left out: term     *)
(* equality ignores them and no reduction reads them.  The four maps of    *)
(* the environment are keyed by the path string of a Qual name.            *)
(***************************************************************************)
EXTENDS Integers, Sequences, FiniteSets, TLC

VARIABLES
    ty_cx,      \* the TyCtxt: types, functions, axioms, definitions, local_counter,
                \* and issued, the history of the numbers local_counter handed out
    pc,         \* where type_check_module stands: idle, checking, ok, failed, aborted
    module,     \* the defs of the module being checked
    idx,        \* the position of the next item of module.defs
    declared,   \* history: the positions declared so far, in order
    checked,    \* history: the positions handed to type_check_def so far, in order
    module_res, \* what type_check_module returned ("none" while it has not)
    merges,     \* how many merges this environment has taken
    res,        \* the last call: [op, input, out, before], before the TyCtxt it ran on
    tk          \* the Tokenizer: text, pos (the lookahead), by (shift), and history:
                \* last, what next returned last, and calls, how often it was called

vars == <<ty_cx, pc, module, idx, declared, checked, module_res, merges, res, tk>>

(***************************************************************************)
(* Bounds of the model.                                                    *)
(***************************************************************************)
MaxItems == 2       \* longest module handed to type_check_module
MaxFuel == 7        \* deepest nesting of eval calls the model follows
MaxMerges == 1      \* merges taken by one environment
MaxLocals == 6      \* largest local_counter from which a query is started
MaxLen == 3         \* longest text handed to the tokenizer
MaxCalls == 4       \* calls of next on one tokenizer

(***************************************************************************)
(* Names and term constructors.                                            *)
(***************************************************************************)
Qual(s) == <<"Qual", s>>
DeBruijn(i) == <<"DB", i>>
Local(k, ty) == <<"Local", k, ty>>

Type == <<"Type">>
UnitLit == <<"Literal", "Unit">>
IntLit == <<"Literal", "Int">>
Var(n) == <<"Var", n>>
App(f, a) == <<"App", f, a>>
Lambda(ty, body) == <<"Lambda", ty, body>>
Forall(ty, term) == <<"Forall", ty, term>>
Recursor(d, off, ts) == <<"Recursor", d, off, ts>>

\* Name::to_term
to_term(n) == Var(n)
Global(s) == Var(Qual(s))

(***************************************************************************)
(* Outcomes that are not terms.  Err is Result::Err(Error::...); Panic is  *)
(* a Rust panic (the process aborts); Diverges says the call re-entered    *)
(* itself on the very term it is evaluating, which for a pure function is  *)
(* an unbounded recursion; OutOfFuel says the model stopped following the  *)
(* recursion at depth MaxFuel and knows nothing about the outcome.         *)
(***************************************************************************)
Err(kind, payload) == <<"Err", kind, payload>>
Panic(msg) == <<"Panic", msg>>
Diverges == <<"Diverges">>
OutOfFuel == <<"OutOfFuel">>
Ok == <<"Ok">>

IsTerm(r) == r[1] \in {"Type", "Literal", "Var", "App", "Lambda", "Forall", "Recursor"}
IsErr(r) == r[1] = "Err"
IsPanic(r) == r[1] = "Panic"

(***************************************************************************)
(* Term algebra (module core): instantiate, abstr, head, args, apply_all.  *)
(***************************************************************************)
RECURSIVE shift(_, _, _)
shift(t, d, c) ==
    CASE t[1] = "Var" ->
            IF t[2][1] = "DB" /\ t[2][2] >= c THEN Var(DeBruijn(t[2][2] + d)) ELSE t
      [] t[1] = "App" -> App(shift(t[2], d, c), shift(t[3], d, c))
      [] t[1] = "Lambda" -> Lambda(shift(t[2], d, c), shift(t[3], d, c + 1))
      [] t[1] = "Forall" -> Forall(shift(t[2], d, c), shift(t[3], d, c + 1))
      [] t[1] = "Recursor" ->
            Recursor(t[2], t[3], [i \in 1..Len(t[4]) |-> shift(t[4][i], d, c)])
      [] OTHER -> t

RECURSIVE replace(_, _, _)
replace(t, index, subst) ==
    CASE t[1] = "Var" ->
            IF t[2][1] = "DB"
            THEN IF t[2][2] = index THEN shift(subst, index, 0)
                 ELSE IF t[2][2] > index THEN Var(DeBruijn(t[2][2] - 1))
                 ELSE t
            ELSE t
      [] t[1] = "App" -> App(replace(t[2], index, subst), replace(t[3], index, subst))
      [] t[1] = "Lambda" ->
            Lambda(replace(t[2], index, subst), replace(t[3], index + 1, subst))
      [] t[1] = "Forall" ->
            Forall(replace(t[2], index, subst), replace(t[3], index + 1, subst))
      [] t[1] = "Recursor" ->
            Recursor(t[2], t[3], [i \in 1..Len(t[4]) |-> replace(t[4][i], index, subst)])
      [] OTHER -> t

\* Term::instantiate: DeBruijn index 0 of the body becomes the value
instantiate(body, value) == replace(body, 0, value)

RECURSIVE abstr_at(_, _, _)
abstr_at(t, local, depth) ==
    CASE t[1] = "Var" -> IF t[2] = local THEN Var(DeBruijn(depth)) ELSE t
      [] t[1] = "App" -> App(abstr_at(t[2], local, depth), abstr_at(t[3], local, depth))
      [] t[1] = "Lambda" ->
            Lambda(abstr_at(t[2], local, depth), abstr_at(t[3], local, depth + 1))
      [] t[1] = "Forall" ->
            Forall(abstr_at(t[2], local, depth), abstr_at(t[3], local, depth + 1))
      [] t[1] = "Recursor" ->
            Recursor(t[2], t[3], [i \in 1..Len(t[4]) |-> abstr_at(t[4][i], local, depth)])
      [] OTHER -> t

\* Term::abstr: occurrences of the local become the bound variable
abstr(t, local) == abstr_at(t, local, 0)

None == <<"None">>
Some(x) == <<"Some", x>>

\* Term::head: the head f of a spine f x1 ... xn
RECURSIVE head(_)
head(t) ==
    CASE t[1] = "App" -> head(t[2])
      [] t[1] = "Var" -> Some(t)
      [] OTHER -> None

\* Term::args: the arguments x1 ... xn of a spine, None for a bare head
RECURSIVE spine_args(_)
spine_args(t) == IF t[1] = "App" THEN Append(spine_args(t[2]), t[3]) ELSE <<>>
args(t) == IF t[1] = "App" THEN Some(spine_args(t)) ELSE None

\* Term::apply_all: left fold of applications
RECURSIVE apply_all(_, _)
apply_all(h, as) == IF as = <<>> THEN h ELSE apply_all(App(h, Head(as)), Tail(as))

(***************************************************************************)
(* Items of a module (core::Item) and the environment.                     *)
(*   <<"Data", name, ty, ctors>>     ctors a sequence of <<name, ty>>      *)
(*   <<"Fn", name, ret_ty, body>>                                          *)
(*   <<"Extern", name, term>>                                              *)
(***************************************************************************)
Data(name, ty, ctors) == <<"Data", name, ty, ctors>>
Function(name, ret_ty, body) == <<"Fn", name, ret_ty, body>>
Extern(name, term) == <<"Extern", name, term>>

EmptyMap == [k \in {} |-> Type]
contains_key(m, k) == k \in DOMAIN m
\* HashMap::insert: the new value replaces an old one under the same key
insert(m, k, v) == [x \in (DOMAIN m) \cup {k} |-> IF x = k THEN v ELSE m[x]]

\* TyCtxt::empty
empty ==
    [types |-> EmptyMap, functions |-> EmptyMap, axioms |-> EmptyMap,
     definitions |-> EmptyMap, local_counter |-> 0, issued |-> <<>>]

\* TyCtxt::in_scope
in_scope(cx, name) == contains_key(cx.axioms, name) \/ contains_key(cx.definitions, name)

\* lookup_global asking axioms before definitions
lookup_global_axioms_first(cx, name) ==
    IF contains_key(cx.axioms, name) THEN cx.axioms[name]
    ELSE IF contains_key(cx.definitions, name) THEN cx.definitions[name][1]
    ELSE Err("UnknownVariable", name)

\* TyCtxt::lookup_global
lookup_global(cx, name) ==
    IF contains_key(cx.definitions, name) THEN cx.definitions[name][1]
    ELSE IF contains_key(cx.axioms, name) THEN cx.axioms[name]
    ELSE Err("UnknownVariable", name)

\* TyCtxt::get_main_body
get_main_body(cx) ==
    IF contains_key(cx.functions, "main") THEN cx.functions["main"][4]
    ELSE Err("NoMain", "main")

\* inductive::make_recursor: the offset it gives the recursor of a datatype
recursor_offset(data_type) == 1 + Len(data_type[4])

\* inductive::make_recursor: the name of the recursor, <datatype>.rec
recursor_name(data_type) == data_type[2] \o ".rec"

\* inductive::make_recursor: the type of the recursor, with the binders of the
\* minor premises elided: (C : D -> Type) -> (x : D) -> C x
recursor_ty(data_type) ==
    Forall(Forall(Global(data_type[2]), Type),
           Forall(Global(data_type[2]), App(Var(DeBruijn(1)), Var(DeBruijn(0)))))

\* inductive::make_recursor: the recursor's type becomes an axiom
make_recursor(cx, data_type) ==
    <<[cx EXCEPT !.axioms = insert(@, recursor_name(data_type), recursor_ty(data_type))],
      Ok>>

RECURSIVE insert_ctors(_, _)
insert_ctors(axioms, ctors) ==
    IF ctors = <<>> THEN axioms
    ELSE insert_ctors(insert(axioms, Head(ctors)[1], Head(ctors)[2]), Tail(ctors))

\* TyCtxt::declare_datatype: <<the environment after, the result>>
declare_datatype(cx, data_type) ==
    LET cx1 == [cx EXCEPT !.types = insert(@, data_type[2], data_type)]
        cx2 == [cx1 EXCEPT !.axioms = insert(@, data_type[2], data_type[3])]
        cx3 == [cx2 EXCEPT !.axioms = insert_ctors(@, data_type[4])]
    IN  make_recursor(cx3, data_type)

\* TyCtxt::declare_def
declare_def(cx, f) ==
    [cx EXCEPT !.functions = insert(@, f[2], f),
               !.definitions = insert(@, f[2], <<f[3], f[4]>>)]

\* TyCtxt::declare_extern
declare_extern(cx, e) == [cx EXCEPT !.axioms = insert(@, e[2], e[3])]

\* TyCtxt::unfold_name
unfold_name(cx, n) ==
    IF n[1] = "Qual"
    THEN IF contains_key(cx.definitions, n[2]) THEN cx.definitions[n[2]][2]
         ELSE to_term(n)
    ELSE to_term(n)

(***************************************************************************)
(* The evaluator.  eval(cx, term, fuel, stack): fuel is the depth of       *)
(* nested eval calls still followed, stack the terms whose evaluation is   *)
(* in progress around this call.  A Rust Vec index j is position j + 1 of  *)
(* the sequence.                                                           *)
(***************************************************************************)
RECURSIVE eval(_, _, _, _)
RECURSIVE eval_app(_, _, _, _)
RECURSIVE eval_forall(_, _, _, _)
RECURSIVE eval_ctor_match(_, _, _, _, _, _)
RECURSIVE eval_recursor(_, _, _, _)

\* eval_app with the argument substituted as written (call by name)
eval_app_by_name(cx, term, fuel, stack) ==
    LET efun == eval(cx, term[2], fuel - 1, stack \cup {term}) IN
    IF ~IsTerm(efun) THEN efun
    ELSE LET earg == eval(cx, term[3], fuel - 1, stack \cup {term}) IN
         IF ~IsTerm(earg) THEN earg
         ELSE IF efun[1] = "Lambda"
              THEN eval(cx, instantiate(efun[3], term[3]), fuel - 1, stack \cup {term})
              ELSE App(efun, earg)

\* eval, the App arm
eval_app(cx, term, fuel, stack) ==
    LET efun == eval(cx, term[2], fuel - 1, stack \cup {term}) IN
    IF ~IsTerm(efun) THEN efun
    ELSE LET earg == eval(cx, term[3], fuel - 1, stack \cup {term}) IN
         IF ~IsTerm(earg) THEN earg
         ELSE IF efun[1] = "Lambda"
              THEN eval(cx, instantiate(efun[3], earg), fuel - 1, stack \cup {term})
              ELSE App(efun, earg)

\* eval, the Forall arm
eval_forall(cx, term, fuel, stack) ==
    LET ety == eval(cx, term[2], fuel - 1, stack \cup {term}) IN
    IF ~IsTerm(ety) THEN ety
    ELSE LET eterm == eval(cx, term[3], fuel - 1, stack \cup {term}) IN
         IF ~IsTerm(eterm) THEN eterm
         ELSE Forall(ety, eterm)

\* eval, the Recursor arm: the body of the if that found the constructor
eval_ctor_match(cx, term, scrutinee, i, fuel, stack) ==
    LET ty_name == term[2]
        offset == term[3]
        ts == term[4]
    IN  IF i + offset >= Len(ts) THEN Panic("index out of bounds")
        ELSE LET premise == ts[i + offset + 1]
                 sargs == args(scrutinee)
             IN  IF sargs = None THEN premise
                 ELSE LET tsprime == [ts EXCEPT ![Len(ts)] = sargs[2][1]]
                          rec == Recursor(ty_name, offset, tsprime)
                      IN  eval(cx, apply_all(premise, Append(sargs[2], rec)),
                               fuel - 1, stack \cup {term})

\* eval, the Recursor arm: the loop over the constructors, from the i-th on
RECURSIVE eval_ctor_loop(_, _, _, _, _, _)
eval_ctor_loop(cx, term, scrutinee, i, fuel, stack) ==
    LET ctors == cx.types[term[2]][4] IN
    IF i >= Len(ctors) THEN Panic("this shouldn't happen")
    ELSE IF head(scrutinee) = None THEN Panic("arg to recursor must be in (w)hnf")
    ELSE IF to_term(Qual(ctors[i + 1][1])) = head(scrutinee)[2]
         THEN eval_ctor_match(cx, term, scrutinee, i, fuel, stack)
         ELSE eval_ctor_loop(cx, term, scrutinee, i + 1, fuel, stack)

\* eval, the Recursor arm
eval_recursor(cx, term, fuel, stack) ==
    IF ~contains_key(cx.types, term[2]) THEN Panic("can not find decl")
    ELSE IF Len(term[4]) = 0 THEN Panic("index out of bounds")
    ELSE LET scrutinee == eval(cx, term[4][Len(term[4])], fuel - 1, stack \cup {term}) IN
         IF ~IsTerm(scrutinee) THEN scrutinee
         ELSE eval_ctor_loop(cx, term, scrutinee, 0, fuel, stack)

\* TyCtxt::eval
eval(cx, term, fuel, stack) ==
    IF term \in stack THEN Diverges
    ELSE IF fuel = 0 THEN OutOfFuel
    ELSE CASE term[1] = "App" -> eval_app(cx, term, fuel, stack)
           [] term[1] = "Forall" -> eval_forall(cx, term, fuel, stack)
           [] term[1] = "Var" -> unfold_name(cx, term[2])
           [] term[1] = "Recursor" -> eval_recursor(cx, term, fuel, stack)
           [] OTHER -> term

\* a call of eval from outside the evaluator
Eval(cx, term) == eval(cx, term, MaxFuel, {})

(***************************************************************************)
(* Definitional equality.                                                  *)
(***************************************************************************)
\* def_eq_modulo: <<the answer, the log after>>
RECURSIVE def_eq_modulo(_, _, _)

\* a comparison that answers false on two different leaves and records nothing
def_eq_modulo_silent(t1, t2, equalities) ==
    IF t1[1] = t2[1] /\ t1[1] \in {"App", "Forall", "Lambda"}
    THEN LET first == def_eq_modulo(t1[2], t2[2], equalities) IN
         IF first[1] THEN def_eq_modulo(t1[3], t2[3], first[2]) ELSE first
    ELSE <<t1 = t2, equalities>>

def_eq_modulo(t1, t2, equalities) ==
    IF t1[1] = t2[1] /\ t1[1] \in {"App", "Forall", "Lambda"}
    THEN LET first == def_eq_modulo(t1[2], t2[2], equalities) IN
         IF first[1] THEN def_eq_modulo(t1[3], t2[3], first[2]) ELSE first
    ELSE IF t1 = t2 THEN <<TRUE, equalities>>
         ELSE <<FALSE, Append(equalities, <<t1, t2>>)>>

\* def_eq, after the comparison: r is what def_eq_modulo gave for t and u
def_eq_result(t, u, r) ==
    IF r[1]
    THEN IF Len(r[2]) # 0 THEN Panic("assertion failed") ELSE t
    ELSE Err("DefUnequal", <<t, u, r[2]>>)

\* def_eq, from the two evaluations on (each is left by try! when it failed)
def_eq_normal(t, u) ==
    IF ~IsTerm(t) THEN t
    ELSE IF ~IsTerm(u) THEN u
    ELSE def_eq_result(t, u, def_eq_modulo(t, u, <<>>))

\* TyCtxt::def_eq
def_eq(cx, t, u) == def_eq_normal(Eval(cx, t), Eval(cx, u))

(***************************************************************************)
(* The checker.  Both operators return <<the result, local_counter after>>. *)
(* local_counter is carried as <<the value of the RefCell, the numbers it  *)
(* has handed out so far>>; the second part is history, which no operator  *)
(* reads.                                                                  *)
(***************************************************************************)
\* the local_counter of the environment, with its history
counter_of(cx) == <<cx.local_counter, cx.issued>>

\* local_with_repr without the increment of local_counter
local_with_repr_no_bump(counter, ty) ==
    <<Local(counter[1], ty), <<counter[1], Append(counter[2], counter[1])>>>>

\* TyCtxt::local_with_repr (through TyCtxt::local and LocalCx::local):
\* <<the name, local_counter after>>
local_with_repr(counter, ty) ==
    <<Local(counter[1], ty), <<counter[1] + 1, Append(counter[2], counter[1])>>>>

RECURSIVE type_infer_term(_, _, _)
RECURSIVE type_check_term(_, _, _, _)
RECURSIVE infer_app(_, _, _)
RECURSIVE infer_forall(_, _, _)
RECURSIVE infer_lambda(_, _, _)

\* type_check_term, from the inferred type on
check_inferred(cx, ty, infer_ty) ==
    IF ~IsTerm(infer_ty[1]) THEN infer_ty
    ELSE <<def_eq(cx, ty, infer_ty[1]), infer_ty[2]>>

\* LocalCx::type_check_term
type_check_term(cx, term, ty, counter) ==
    check_inferred(cx, ty, type_infer_term(cx, term, counter))

\* type_infer_term, the App arm
infer_app(cx, term, counter) ==
    LET fty == type_infer_term(cx, term[2], counter) IN
    IF ~IsTerm(fty[1]) THEN fty
    ELSE IF fty[1][1] = "Forall"
         THEN LET chk == type_check_term(cx, term[3], fty[1][2], fty[2]) IN
              IF ~IsTerm(chk[1]) THEN chk
              ELSE <<instantiate(fty[1][3], term[3]), chk[2]>>
         ELSE <<Err("ApplicationMismatch", <<term[2], term[3]>>), fty[2]>>

\* type_infer_term, the Forall arm
infer_forall(cx, term, counter) ==
    LET fresh == local_with_repr(counter, term[2])
        local == fresh[1]
        body == instantiate(term[3], to_term(local))
        c1 == type_check_term(cx, term[2], Type, fresh[2])
    IN  IF ~IsTerm(c1[1]) THEN c1
        ELSE LET c2 == type_check_term(cx, body, Type, c1[2]) IN
             IF ~IsTerm(c2[1]) THEN c2 ELSE <<Type, c2[2]>>

\* type_infer_term, the Lambda arm
infer_lambda(cx, term, counter) ==
    LET fresh == local_with_repr(counter, term[2])
        local == fresh[1]
        body == instantiate(term[3], to_term(local))
        bty == type_infer_term(cx, body, fresh[2])
    IN  IF ~IsTerm(bty[1]) THEN bty
        ELSE <<Forall(term[2], abstr(bty[1], local)), bty[2]>>

\* LocalCx::type_infer_term
type_infer_term(cx, term, counter) ==
    CASE term[1] = "Literal" ->
            IF term[2] = "Int" THEN <<Panic("explicit panic"), counter>>
            ELSE <<Global("Unit"), counter>>
      [] term[1] = "Var" ->
            IF term[2][1] = "Local" THEN <<term[2][3], counter>>
            ELSE IF term[2][1] = "Qual" THEN <<lookup_global(cx, term[2][2]), counter>>
            ELSE <<Panic("all variable occurences must be free"), counter>>
      [] term[1] = "App" -> infer_app(cx, term, counter)
      [] term[1] = "Forall" -> infer_forall(cx, term, counter)
      [] term[1] = "Lambda" -> infer_lambda(cx, term, counter)
      [] term[1] = "Type" -> <<Type, counter>>
      [] OTHER -> <<Panic("explicit panic"), counter>>

\* type_check_def: the term that type_check_term returned is dropped
drop_term(r) == IF IsTerm(r[1]) THEN <<Ok, r[2]>> ELSE r

\* TyCtxt::type_check_def: <<the result, local_counter after>>
type_check_def(cx, def) ==
    IF def[1] = "Fn"
    THEN drop_term(type_check_term(cx, def[4], def[3], counter_of(cx)))
    ELSE <<Ok, counter_of(cx)>>

(***************************************************************************)
(* One pass of the loop of type_check_module, and from_module.             *)
(***************************************************************************)
\* type_check_module, the match that declares the item:
\* <<the environment after, the result>>
declare_item(cx, def) ==
    CASE def[1] = "Data" -> declare_datatype(cx, def)
      [] def[1] = "Fn" -> <<declare_def(cx, def), Ok>>
      [] OTHER -> <<declare_extern(cx, def), Ok>>

\* a type_check_def that takes the item it rejected out of definitions again
after_check_undeclares(cx, chk) ==
    <<[cx EXCEPT !.local_counter = chk[2][1], !.issued = chk[2][2],
                 !.definitions = IF chk[1] = Ok THEN @ ELSE EmptyMap],
      chk[1]>>

\* type_check_module, the environment and result after type_check_def gave chk
after_check(cx, chk) ==
    <<[cx EXCEPT !.local_counter = chk[2][1], !.issued = chk[2][2]], chk[1]>>

\* type_check_module, the body of the loop after the declaration decl
check_declared(decl, def) ==
    IF decl[2] # Ok THEN decl ELSE after_check(decl[1], type_check_def(decl[1], def))

\* a loop body that checks the item before it declares it
type_check_item_checks_first(cx, def) ==
    LET chk == after_check(cx, type_check_def(cx, def)) IN
    IF chk[2] # Ok THEN chk ELSE declare_item(chk[1], def)

\* type_check_module, the body of the loop: <<the environment after, the result>>
type_check_item(cx, def) == check_declared(declare_item(cx, def), def)

RECURSIVE type_check_module(_, _, _)

\* type_check_module, the loop after the pass on the i-th item gave step
continue_module(step, defs, i) ==
    IF step[2] # Ok THEN step ELSE type_check_module(step[1], defs, i + 1)

\* TyCtxt::type_check_module, from the i-th item on
type_check_module(cx, defs, i) ==
    IF i > Len(defs) THEN <<cx, Ok>>
    ELSE continue_module(type_check_item(cx, defs[i]), defs, i)

\* TyCtxt::from_module
from_module(defs) == type_check_module(empty, defs, 1)

(***************************************************************************)
(* merge.  A HashMap is iterated in an order the program does not choose:  *)
(* order gives, for each of the four maps of the other environment, the    *)
(* sequence in which its keys come.                                        *)
(***************************************************************************)
\* merge, one of its four loops: <<the map after, the errors after>>
RECURSIVE merge_map(_, _, _, _)

\* one loop of a merge that leaves an entry of self alone on a collision
merge_map_keeps_mine(mine, theirs, order, errors) ==
    IF order = <<>> THEN <<mine, errors>>
    ELSE LET n == Head(order) IN
         IF contains_key(mine, n)
         THEN merge_map(mine, theirs, Tail(order), Append(errors, Err("NameExists", n)))
         ELSE merge_map(insert(mine, n, theirs[n]), theirs, Tail(order), errors)

merge_map(mine, theirs, order, errors) ==
    IF order = <<>> THEN <<mine, errors>>
    ELSE LET n == Head(order) IN
         merge_map(insert(mine, n, theirs[n]), theirs, Tail(order),
                   IF contains_key(mine, n)
                   THEN Append(errors, Err("NameExists", n))
                   ELSE errors)

\* TyCtxt::merge: <<the environment after, the result>>
merge(cx, other, order) ==
    LET t == merge_map(cx.types, other.types, order.types, <<>>)
        f == merge_map(cx.functions, other.functions, order.functions, t[2])
        a == merge_map(cx.axioms, other.axioms, order.axioms, f[2])
        d == merge_map(cx.definitions, other.definitions, order.definitions, a[2])
    IN  <<[cx EXCEPT !.types = t[1], !.functions = f[1],
                     !.axioms = a[1], !.definitions = d[1]],
          IF Len(d[2]) # 0 THEN Err("Many", d[2]) ELSE Ok>>

\* the orders in which a set of keys can be iterated
RECURSIVE Orders(_)
Orders(keys) ==
    IF keys = {} THEN {<<>>}
    ELSE UNION {{<<k>> \o rest : rest \in Orders(keys \ {k})} : k \in keys}

IterationOrders(other) ==
    [types : Orders(DOMAIN other.types), functions : Orders(DOMAIN other.functions),
     axioms : Orders(DOMAIN other.axioms), definitions : Orders(DOMAIN other.definitions)]

(***************************************************************************)
(* The tokenizer (src/hubris_syntax/src/tok/mod.rs).  The text is a        *)
(* sequence of characters, each a one-character string; pos is the place   *)
(* (from 1) of the lookahead character, Len(text) + 1 when the lookahead   *)
(* is None.  chars, the iterator, always stands right after the lookahead. *)
(* A byte index of the source is a place minus one.  Results of next are   *)
(* None, <<"Tok", l, <<kind, text>>, r>> and <<"TokErr", code, location>>. *)
(***************************************************************************)
TokOk(l, kind, text, r) == <<"Tok", l, <<kind, text>>, r>>
TokErr(code, location) == <<"TokErr", code, location>>

\* the characters the model writes texts with
Alphabet == {"!", "=", ":", "/", "\n", "\"", "\\", "a", "_", " ", "$", "1", ","}
\* UnicodeXID::is_xid_start, UnicodeXID::is_xid_continue and char::is_whitespace
\* on these characters
is_identifier_start(c) == c \in {"a"}
is_identifier_continue(c) == c \in {"a", "_", "1"}
is_whitespace(c) == c \in {" ", "\n"}

\* the arms of next_unshifted that read one character, and the arms that read a
\* second one: what the second can be, and what the first is alone
OneCharToks ==
    [c \in {",", "#", ">", "{", "[", "(", "<", "+", "?", "}", "]", ")", ";", "*", "_", "|"} |->
        CASE c = "," -> "Comma" [] c = "#" -> "Hash" [] c = ">" -> "GreaterThan"
          [] c = "{" -> "LeftBrace" [] c = "[" -> "LeftBracket" [] c = "(" -> "LeftParen"
          [] c = "<" -> "LessThan" [] c = "+" -> "Plus" [] c = "?" -> "Question"
          [] c = "}" -> "RightBrace" [] c = "]" -> "RightBracket" [] c = ")" -> "RightParen"
          [] c = ";" -> "Semi" [] c = "*" -> "Star" [] c = "_" -> "Underscore"
          [] OTHER -> "Bar"]
TwoCharToks ==
    [c \in {"!", ":", ".", "=", "@", "-", "~"} |->
        CASE c = "!" -> [second |-> ("=" :> "BangEquals"), alone |-> "none"]
          [] c = ":" -> [second |-> ("=" :> "ColonEq" @@ ":" :> "ColonColon"), alone |-> "Colon"]
          [] c = "." -> [second |-> ("." :> "DotDot"), alone |-> "Period"]
          [] c = "=" -> [second |-> ("=" :> "EqualsEquals" @@ ">" :> "FatArrow"), alone |-> "Equals"]
          [] c = "@" -> [second |-> ("L" :> "Lookahead" @@ "R" :> "Lookbehind"), alone |-> "none"]
          [] c = "-" -> [second |-> (">" :> "Arrow"), alone |-> "none"]
          [] OTHER -> [second |-> ("~" :> "TildeTilde"), alone |-> "none"]]

\* KEYWORDS
KEYWORDS ==
    (<<"d", "e", "f">> :> "Def") @@ (<<"e", "n", "d">> :> "End")
    @@ (<<"e", "x", "t", "e", "r", "n">> :> "Extern")
    @@ (<<"f", "o", "r", "a", "l", "l">> :> "Forall") @@ (<<"f", "u", "n">> :> "Fun")
    @@ (<<"i", "n">> :> "In")
    @@ (<<"i", "n", "d", "u", "c", "t", "i", "v", "e">> :> "Inductive")
    @@ (<<"i", "m", "p", "o", "r", "t">> :> "Import") @@ (<<"l", "e", "t">> :> "Let")
    @@ (<<"m", "a", "t", "c", "h">> :> "Match")
    @@ (<<"m", "o", "d", "u", "l", "e">> :> "Module")
    @@ (<<"T", "y", "p", "e">> :> "Type") @@ (<<"w", "i", "t", "h">> :> "With")

\* Tokenizer::bump: the place of the lookahead after it
bump(text, pos) == IF pos <= Len(text) THEN pos + 1 ELSE pos

\* Tokenizer::take_until, terminate(c) being c \in stop:
\* <<the index where it stopped or None, the place of the lookahead after>>
RECURSIVE take_until(_, _, _)
take_until(text, pos, stop) ==
    IF pos > Len(text) THEN <<None, pos>>
    ELSE IF text[pos] \in stop THEN <<Some(pos - 1), pos>>
    ELSE take_until(text, bump(text, pos), stop)

\* Tokenizer::take_until with the closure of string_literal, escape its flag
RECURSIVE take_until_quote(_, _, _)
take_until_quote(text, pos, escape) ==
    IF pos > Len(text) THEN <<None, pos>>
    ELSE IF escape THEN take_until_quote(text, bump(text, pos), FALSE)
    ELSE IF text[pos] = "\\" THEN take_until_quote(text, bump(text, pos), TRUE)
    ELSE IF text[pos] = "\"" THEN <<Some(pos - 1), pos>>
    ELSE take_until_quote(text, bump(text, pos), FALSE)

\* Tokenizer::string_literal: <<the result, the place of the lookahead after>>
string_literal(text, pos, idx0) ==
    LET found == take_until_quote(text, pos, FALSE) IN
    IF found[1] = None THEN <<TokErr("UnterminatedStringLiteral", idx0), found[2]>>
    ELSE <<TokOk(idx0, "StringLiteral", SubSeq(text, idx0 + 2, found[1][2]), found[1][2] + 1),
           bump(text, found[2])>>

\* Tokenizer::word: <<start, word, end, the place of the lookahead after>>
word(text, pos, idx0) ==
    LET found == take_until(text, pos, {c \in Alphabet : ~is_identifier_continue(c)})
        end == IF found[1] = None THEN Len(text) ELSE found[1][2]
    IN  <<idx0, SubSeq(text, idx0 + 1, end), end, found[2]>>

\* Tokenizer::identifierish
identifierish(text, pos, idx0) ==
    LET w == word(text, pos, idx0) IN
    <<TokOk(w[1], IF w[2] \in DOMAIN KEYWORDS THEN KEYWORDS[w[2]] ELSE "Id", w[2], w[3]),
      w[4]>>

\* next_unshifted, an arm that reads a second character
two_char(text, pos, arm) ==
    LET idx0 == pos - 1
        p1 == bump(text, pos)
    IN  IF p1 <= Len(text) /\ text[p1] \in DOMAIN arm.second
        THEN <<TokOk(idx0, arm.second[text[p1]], <<>>, p1), bump(text, p1)>>
        ELSE IF arm.alone = "none" THEN <<TokErr("UnrecognizedToken", idx0), p1>>
        ELSE <<TokOk(idx0, arm.alone, <<>>, idx0 + 1), p1>>

RECURSIVE next_unshifted(_, _)

\* Tokenizer::next_unshifted: <<the result, the place of the lookahead after>>
next_unshifted(text, pos) ==
    IF pos > Len(text) THEN <<None, pos>>
    ELSE LET c == text[pos]
             idx0 == pos - 1
         IN  CASE c \in DOMAIN TwoCharToks -> two_char(text, pos, TwoCharToks[c])
               [] c \in DOMAIN OneCharToks ->
                     <<TokOk(idx0, OneCharToks[c], <<>>, idx0 + 1), bump(text, pos)>>
               [] c = "\"" -> string_literal(text, bump(text, pos), idx0)
               [] c = "/" ->
                     IF bump(text, pos) <= Len(text) /\ text[bump(text, pos)] = "/"
                     THEN next_unshifted(text, take_until(text, bump(text, pos), {"\n"})[2])
                     ELSE <<TokErr("UnrecognizedToken", idx0), bump(text, pos)>>
               [] is_identifier_start(c) -> identifierish(text, pos, idx0)
               [] is_whitespace(c) -> next_unshifted(text, bump(text, pos))
               [] OTHER -> <<TokErr("UnrecognizedToken", idx0), pos>>

\* Iterator::next, the shift added to what next_unshifted gave
shifted(r, by) ==
    CASE r[1] = "Tok" -> <<"Tok", r[2] + by, r[3], r[4] + by>>
      [] r[1] = "TokErr" -> <<"TokErr", r[2], r[3] + by>>
      [] OTHER -> r

\* Iterator for Tokenizer, next, after next_unshifted gave step
shift_item(step, by) == <<shifted(step[1], by), step[2]>>

\* Iterator for Tokenizer, next: <<the item, the place of the lookahead after>>
tokenizer_next(text, pos, by) == shift_item(next_unshifted(text, pos), by)

(***************************************************************************)
(* The inputs the model draws from.                                        *)
(***************************************************************************)
\* (fun (x : Type) => x) Type, a beta-redex of type Type
RedexTerm == App(Lambda(Type, Var(DeBruijn(0))), Type)

ListData ==
    Data("List", Type,
         <<(<<"nil", Global("List")>>),
           (<<"cons", Forall(Type, Forall(Global("List"), Global("List")))>>)>>)
BoolData == Data("Bool", Type, <<(<<"tt", Global("Bool")>>), (<<"ff", Global("Bool")>>)>>)
\* def redex : Type := (fun (x : Type) => x) Type
RedexFn == Function("redex", Type, RedexTerm)
\* def ref : Type := redex
RefFn == Function("ref", Type, Global("redex"))
\* def loop : Type -> Type := fun (n : Type) => loop n
LoopFn ==
    Function("loop", Forall(Type, Type), Lambda(Type, App(Global("loop"), Var(DeBruijn(0)))))
\* def Endo : Type := Type -> Type
EndoFn == Function("Endo", Type, Forall(Type, Type))
\* def idE : Endo := fun (x : Type) => x
IdEFn == Function("idE", Global("Endo"), Lambda(Type, Var(DeBruijn(0))))
\* def bad : Type := fun (x : Type) => x
BadFn == Function("bad", Type, Lambda(Type, Var(DeBruijn(0))))
\* extern A : Type
AExtern == Extern("A", Type)

\* extern A : Type -> Type, and def A : Type -> Type := fun (x : Type) => x: the
\* name A again, with another type and as a definition
AArrowExtern == Extern("A", Forall(Type, Type))
AFn == Function("A", Forall(Type, Type), Lambda(Type, Var(DeBruijn(0))))

Items == {ListData, BoolData, RedexFn, RefFn, LoopFn, EndoFn, IdEFn, BadFn, AExtern}

RECURSIVE SeqsUpTo(_, _)
SeqsUpTo(S, n) ==
    IF n = 0 THEN {<<>>}
    ELSE LET shorter == SeqsUpTo(S, n - 1) IN
         shorter \cup {Append(q, x) : q \in shorter, x \in S}

Modules == SeqsUpTo(Items, MaxItems)
\* the modules an import brings in
ImportModules == SeqsUpTo(Items, 1)

\* the texts handed to the tokenizer, and the shifts
Texts == SeqsUpTo(Alphabet, MaxLen)
Shifts == {0, 1}

\* modules whose checking allocates locals, and terms whose inference does
LocalItems == {LoopFn, EndoFn, AExtern}
LocalModules == SeqsUpTo(LocalItems, MaxItems)
LocalImports == SeqsUpTo(LocalItems, 1)
LocalInferInputs ==
    {Lambda(Type, Lambda(Type, Var(DeBruijn(0)))), Forall(Type, Type), Global("loop")}

\* def main : Type := Type
MainFn == Function("main", Type, Type)
\* modules and terms for the calls that only read the environment
PureItems == {RedexFn, BadFn, LoopFn, MainFn}
PureModules == SeqsUpTo(PureItems, MaxItems)
PureNames == {"redex", "main", "B"}
PureTerms ==
    {Type, Global("redex"), RedexTerm, Lambda(Type, Var(DeBruijn(0))),
     App(Global("A"), Type), App(Global("B"), Type), App(Global("A"), RedexTerm),
     Forall(Type, Global("redex")), Forall(Global("A"), Type)}

\* modules whose items declare the same name more than once
ShadowItems == {AExtern, AArrowExtern, AFn, RedexFn}
ShadowModules == SeqsUpTo(ShadowItems, MaxItems)
ShadowImports == SeqsUpTo(ShadowItems, 2)
ShadowNames == {"A", "redex", "ref"}

ALocal == Var(Local(0, Type))
GlobalNames ==
    {"redex", "ref", "loop", "Endo", "idE", "bad", "A",
     "List", "nil", "cons", "Bool", "tt", "ff"}
Atoms == {Type, ALocal} \cup {Global(n) : n \in GlobalNames}
ArgTerms == {Type, ALocal, Global("A"), Global("redex"), Global("ref"), RedexTerm}
BodyTerms ==
    {Var(DeBruijn(0)), Type, Lambda(Type, Var(DeBruijn(1))), App(Var(DeBruijn(0)), Type)}
BetaTerms == {App(Lambda(Type, b), a) : b \in BodyTerms, a \in ArgTerms}
AppTerms ==
    {App(Global(f), a) : f \in {"loop", "idE", "A", "redex"}, a \in {Type, Global("redex")}}
ForallTerms ==
    {Forall(a, b) : a \in {Type, Global("redex")}, b \in {Type, RedexTerm, Global("ref")}}

Nil == Global("nil")
Cons(h, t) == App(App(Global("cons"), h), t)
\* fun h t ih => ih
ThirdOfThree == Lambda(Type, Lambda(Type, Lambda(Type, Var(DeBruijn(0)))))
ListScrutinees ==
    {Nil, Cons(Type, Nil), Cons(Nil, Nil), Cons(Nil, Cons(Nil, Nil)),
     ALocal, Global("A"), Type}
BoolScrutinees == {Global("tt"), Global("ff"), ALocal, Type}
\* a recursor of List: [motive, p_nil, p_cons, scrutinee]
ListRecursor(off, p_cons, s) == Recursor("List", off, <<Type, Global("A"), p_cons, s>>)
\* a recursor of Bool: [motive, p_tt, p_ff, scrutinee]
BoolRecursor(off, s) == Recursor("Bool", off, <<Type, Global("A"), RedexTerm, s>>)
RecursorTerms ==
    {ListRecursor(off, p, s) :
        off \in {1, recursor_offset(ListData)}, p \in {Global("A"), ThirdOfThree},
        s \in ListScrutinees}
    \cup {BoolRecursor(off, s) : off \in {1, recursor_offset(BoolData)}, s \in BoolScrutinees}

EvalInputs == Atoms \cup BetaTerms \cup AppTerms \cup ForallTerms \cup RecursorTerms

InferInputs ==
    {App(Global(f), a) : f \in {"idE", "loop", "redex", "A", "cons"}, a \in {Type, Global("A")}}
    \cup {Global("idE"), Global("ref"), Lambda(Type, Var(DeBruijn(0))), Forall(Type, Type)}

(***************************************************************************)
(* The state machine.                                                      *)
(***************************************************************************)
NoResult == <<"None">>
NoQuery == [op |-> "none", input |-> NoResult, out |-> NoResult, before |-> empty]

\* TyCtxt::empty: the environment after construction
\* no tokenizer made yet
NoTokenizer == [text |-> <<>>, pos |-> 0, by |-> 0, last |-> NoResult, calls |-> 0]

Init ==
    /\ ty_cx = empty
    /\ pc = "idle"
    /\ module = <<>>
    /\ idx = 1
    /\ declared = <<>>
    /\ checked = <<>>
    /\ module_res = NoResult
    /\ merges = 0
    /\ res = NoQuery
    /\ tk = NoTokenizer

\* type_check_module is entered with the module defs
TypeCheckModule(defs) ==
    /\ pc = "idle"
    /\ module' = defs
    /\ idx' = 1
    /\ pc' = IF defs = <<>> THEN "ok" ELSE "checking"
    /\ module_res' = IF defs = <<>> THEN Ok ELSE NoResult
    /\ UNCHANGED <<ty_cx, declared, checked, merges, res>>
    /\ UNCHANGED tk

\* TypeCheckItem going on to the next item after one failed, the first error
\* returned at the end
TypeCheckItemKeepsGoing ==
    /\ pc = "checking"
    /\ \E step \in {type_check_item(ty_cx, module[idx])} :
       LET last == idx = Len(module)
           so_far == IF module_res = NoResult THEN step[2] ELSE module_res
       IN  /\ ty_cx' = step[1]
           /\ declared' = Append(declared, idx)
           /\ checked' = Append(checked, idx)
           /\ idx' = IF last /\ so_far # Ok THEN idx ELSE idx + 1
           /\ pc' = IF ~last THEN "checking" ELSE IF so_far = Ok THEN "ok" ELSE "failed"
           /\ module_res' = IF ~last /\ so_far = Ok THEN NoResult ELSE so_far
    /\ UNCHANGED <<module, merges, res>>
    /\ UNCHANGED tk

\* type_check_module: one pass of the loop, on module[idx]
TypeCheckItem ==
    /\ pc = "checking"
    /\ \E step \in {type_check_item(ty_cx, module[idx])} :
       LET decl == declare_item(ty_cx, module[idx])
           last == idx = Len(module)
       IN  /\ ty_cx' = step[1]
           /\ declared' = Append(declared, idx)
           /\ checked' = IF decl[2] = Ok THEN Append(checked, idx) ELSE checked
           /\ idx' = IF step[2] = Ok THEN idx + 1 ELSE idx
           /\ pc' = IF step[2] = Ok THEN (IF last THEN "ok" ELSE "checking")
                    ELSE IF IsErr(step[2]) THEN "failed"
                    ELSE "aborted"
           /\ module_res' = IF step[2] = Ok /\ ~last THEN NoResult ELSE step[2]
    /\ UNCHANGED <<module, merges, res>>
    /\ UNCHANGED tk

\* the environment can be queried: no type_check_module is running on it
Usable == pc \in {"idle", "ok", "failed"}

\* the calls that take &self and change nothing of the environment, local_counter
\* included.  One of them right after another runs on the same environment as the
\* first: only the first of a row is followed.
ReadOnlyOps == {"eval", "def_eq", "lookup", "unfold_name", "get_main_body"}

\* TyCtxt::eval
EvalCall(term) ==
    /\ Usable
    /\ res.op \notin ReadOnlyOps
    /\ res' = [op |-> "eval", input |-> term, out |-> Eval(ty_cx, term), before |-> ty_cx]
    /\ UNCHANGED <<ty_cx, pc, module, idx, declared, checked, module_res, merges>>
    /\ UNCHANGED tk

\* LocalCx::from_cx, then LocalCx::type_infer_term
InferCall(term) ==
    /\ Usable
    /\ ty_cx.local_counter < MaxLocals
    /\ \E r \in {type_infer_term(ty_cx, term, counter_of(ty_cx))} :
       /\ res' = [op |-> "infer", input |-> term, out |-> r[1], before |-> ty_cx]
       /\ ty_cx' = [ty_cx EXCEPT !.local_counter = r[2][1], !.issued = r[2][2]]
    /\ UNCHANGED <<pc, module, idx, declared, checked, module_res, merges>>
    /\ UNCHANGED tk

\* load_import: TyCtxt::from_module on the imported module, then TyCtxt::merge
MergeCall(defs) ==
    /\ Usable
    /\ merges < MaxMerges
    /\ \E other \in {from_module(defs)} :
       /\ other[2] = Ok
       /\ \E order \in IterationOrders(other[1]) :
          \E m \in {merge(ty_cx, other[1], order)} :
             /\ ty_cx' = m[1]
             /\ res' = [op |-> "merge", input |-> defs, out |-> m[2], before |-> ty_cx]
    /\ merges' = merges + 1
    /\ UNCHANGED <<pc, module, idx, declared, checked, module_res>>
    /\ UNCHANGED tk

\* TyCtxt::lookup_global
LookupCall(name) ==
    /\ Usable
    /\ res.op \notin ReadOnlyOps
    /\ res' = [op |-> "lookup", input |-> name, out |-> lookup_global(ty_cx, name),
               before |-> ty_cx]
    /\ UNCHANGED <<ty_cx, pc, module, idx, declared, checked, module_res, merges>>
    /\ UNCHANGED tk

\* TyCtxt::def_eq
DefEqCall(t, u) ==
    /\ Usable
    /\ res.op \notin ReadOnlyOps
    /\ res' = [op |-> "def_eq", input |-> <<t, u>>, out |-> def_eq(ty_cx, t, u),
               before |-> ty_cx]
    /\ UNCHANGED <<ty_cx, pc, module, idx, declared, checked, module_res, merges>>
    /\ UNCHANGED tk

\* TyCtxt::unfold_name
UnfoldNameCall(n) ==
    /\ Usable
    /\ res.op \notin ReadOnlyOps
    /\ res' = [op |-> "unfold_name", input |-> n, out |-> unfold_name(ty_cx, n),
               before |-> ty_cx]
    /\ UNCHANGED <<ty_cx, pc, module, idx, declared, checked, module_res, merges>>
    /\ UNCHANGED tk

\* TyCtxt::get_main_body
MainBodyCall ==
    /\ Usable
    /\ res.op \notin ReadOnlyOps
    /\ res' = [op |-> "get_main_body", input |-> NoResult, out |-> get_main_body(ty_cx),
               before |-> ty_cx]
    /\ UNCHANGED <<ty_cx, pc, module, idx, declared, checked, module_res, merges>>
    /\ UNCHANGED tk

\* TyCtxt::local_with_repr
LocalCall(ty) ==
    /\ Usable
    /\ ty_cx.local_counter < MaxLocals
    /\ \E fresh \in {local_with_repr(counter_of(ty_cx), ty)} :
       /\ res' = [op |-> "local", input |-> ty, out |-> fresh[1], before |-> ty_cx]
       /\ ty_cx' = [ty_cx EXCEPT !.local_counter = fresh[2][1], !.issued = fresh[2][2]]
    /\ UNCHANGED <<pc, module, idx, declared, checked, module_res, merges>>
    /\ UNCHANGED tk

\* Tokenizer::new: the first bump makes the first character the lookahead
TokNew(text, by) ==
    /\ tk.pos = 0
    /\ tk' = [text |-> text, pos |-> 1, by |-> by, last |-> NoResult, calls |-> 0]
    /\ UNCHANGED <<ty_cx, pc, module, idx, declared, checked, module_res, merges, res>>

\* Iterator for Tokenizer, next
TokNext ==
    /\ tk.pos > 0
    /\ tk.calls < MaxCalls
    /\ \E step \in {tokenizer_next(tk.text, tk.pos, tk.by)} :
       tk' = [tk EXCEPT !.pos = step[2], !.last = step[1], !.calls = @ + 1]
    /\ UNCHANGED <<ty_cx, pc, module, idx, declared, checked, module_res, merges, res>>

CheckNext == (\E defs \in Modules : TypeCheckModule(defs)) \/ TypeCheckItem

Next ==
    \/ \E defs \in Modules : TypeCheckModule(defs)
    \/ TypeCheckItem
    \/ \E term \in EvalInputs : EvalCall(term)
    \/ \E term \in InferInputs : InferCall(term)
    \/ \E name \in GlobalNames : LookupCall(name)
    \/ \E ty \in {Type} : LocalCall(ty)
    \/ \E defs \in ImportModules : MergeCall(defs)
    \/ \E t \in PureTerms, u \in PureTerms : DefEqCall(t, u)
    \/ \E n \in GlobalNames : UnfoldNameCall(Qual(n))
    \/ MainBodyCall
    \/ \E text \in Texts, by \in Shifts : TokNew(text, by)
    \/ TokNext

Spec == Init /\ [][Next]_vars

\* type_check_module alone
SpecCheck == Init /\ [][CheckNext]_vars

\* type_check_module, then calls of eval
SpecEval == Init /\ [][CheckNext \/ \E term \in EvalInputs : EvalCall(term)]_vars

\* type_check_module, then calls of type_infer_term
SpecInfer == Init /\ [][CheckNext \/ \E term \in InferInputs : InferCall(term)]_vars

\* type_check_module, then merges of imported modules
SpecMerge == Init /\ [][CheckNext \/ \E defs \in ImportModules : MergeCall(defs)]_vars

\* modules that declare one name several times, merges of such modules and
\* lookups of their names
ShadowNext ==
    \/ \E defs \in ShadowModules : TypeCheckModule(defs)
    \/ TypeCheckItem
    \/ \E defs \in ShadowImports : MergeCall(defs)
    \/ \E name \in ShadowNames : LookupCall(name)

SpecShadow == Init /\ [][ShadowNext]_vars

\* modules that allocate locals, merges, inferences and calls of local_with_repr
LocalNext ==
    \/ \E defs \in LocalModules : TypeCheckModule(defs)
    \/ TypeCheckItem
    \/ \E defs \in LocalImports : MergeCall(defs)
    \/ \E term \in LocalInferInputs : InferCall(term)
    \/ \E ty \in {Type} : LocalCall(ty)

SpecLocal == Init /\ [][LocalNext]_vars

\* type_check_module, then the calls that take the environment by &self
PureNext ==
    \/ \E defs \in PureModules : TypeCheckModule(defs)
    \/ TypeCheckItem
    \/ \E term \in PureTerms : EvalCall(term)
    \/ \E term \in PureTerms : InferCall(term)
    \/ \E t \in PureTerms, u \in PureTerms : DefEqCall(t, u)
    \/ \E name \in PureNames : LookupCall(name)
    \/ \E name \in PureNames : UnfoldNameCall(Qual(name))
    \/ MainBodyCall

SpecPure == Init /\ [][PureNext]_vars

\* a tokenizer over a text, and calls of next
SpecTok == Init /\ [][(\E text \in Texts, by \in Shifts : TokNew(text, by)) \/ TokNext]_vars

(***************************************************************************)
(* The claims.  Each is stated on the record res of the last call: its     *)
(* input, what it returned and the environment it ran on.                  *)
(***************************************************************************)
\* the names that are keys of the same map in both environments
SharedNames(cx, other) ==
    ((DOMAIN cx.types) \cap (DOMAIN other.types))
    \cup ((DOMAIN cx.functions) \cap (DOMAIN other.functions))
    \cup ((DOMAIN cx.axioms) \cap (DOMAIN other.axioms))
    \cup ((DOMAIN cx.definitions) \cap (DOMAIN other.definitions))

\* C1: merge returns Ok when the two environments share no key, and otherwise
\* Many(list) where list holds exactly one NameExists(n) for each colliding name n
\* (so two environments that both declared the function x give Many([NameExists(x)])).
C1_MergeOneErrorPerName ==
    res.op = "merge" =>
        LET other == from_module(res.input)[1]
            colliding == SharedNames(res.before, other)
        IN  IF colliding = {} THEN res.out = Ok
            ELSE /\ IsErr(res.out)
                 /\ res.out[2] = "Many"
                 /\ Len(res.out[3]) = Cardinality(colliding)
                 /\ \A n \in colliding :
                       \E i \in 1..Len(res.out[3]) : res.out[3][i] = Err("NameExists", n)

\* the input of the last eval is the variable of a definition of the environment
IsDefinedVar(term, cx) ==
    /\ term[1] = "Var"
    /\ term[2][1] = "Qual"
    /\ contains_key(cx.definitions, term[2][2])

\* C2: delta rule: for every name f of definitions with body b, eval(Var(f)) is
\* eval(b), the normal form of the body.
C2_DeltaGivesNormalBody ==
    (res.op = "eval" /\ IsDefinedVar(res.input, res.before)) =>
        res.out = Eval(res.before, res.before.definitions[res.input[2][2]][2])

\* C3: eval is idempotent: wherever eval(t) returns a term, eval of that term
\* returns it again.
C3_EvalIdempotent ==
    (res.op = "eval" /\ IsTerm(res.out)) => Eval(res.before, res.out) = res.out

\* the input of the last eval is a beta-redex App(Lambda{ty, body}, arg)
IsBetaRedex(term) == term[1] = "App" /\ term[2][1] = "Lambda"

\* C4, as claimed: eval(App(Lambda{body=b}, a)) is eval(b.instantiate(a)), with the
\* argument a substituted unevaluated.
C4_BetaWithUnevaluatedArg ==
    (res.op = "eval" /\ IsBetaRedex(res.input)) =>
        res.out = Eval(res.before, instantiate(res.input[2][3], res.input[3]))

\* C4, amended: eval(App(Lambda{body=b}, a)) is eval(b.instantiate(a')) where a' is
\* eval(a), call by value; when eval(a) returns no term, the application returns
\* what eval(a) did.
C4_BetaWithEvaluatedArg ==
    (res.op = "eval" /\ IsBetaRedex(res.input) /\ res.out # OutOfFuel) =>
        LET earg == Eval(res.before, res.input[3]) IN
        IF IsTerm(earg)
        THEN res.out = Eval(res.before, instantiate(res.input[2][3], earg))
        ELSE res.out = earg

\* C4, witness: eval returned a term for a beta-redex whose argument is reducible and
\* whose body keeps the argument under a binder, where eval does not reduce
C4_Witness ==
    /\ res.op = "eval"
    /\ IsBetaRedex(res.input)
    /\ IsTerm(res.out)
    /\ Eval(res.before, res.input[3]) # res.input[3]
    /\ res.input[2][3][1] = "Lambda"

\* the constructors of the datatype a recursor names
CtorsOf(term, cx) == cx.types[term[2]][4]

\* a Recursor over a declared datatype whose ts are [motive, one premise per
\* constructor, scrutinee]
IsSaturated(term, cx) ==
    /\ term[1] = "Recursor"
    /\ contains_key(cx.types, term[2])
    /\ Len(term[4]) = Len(CtorsOf(term, cx)) + 2

\* the minor premise of the i-th constructor (i from 0) in such a Recursor
PremiseOf(term, i) == term[4][i + 2]
Scrutinee(term) == term[4][Len(term[4])]

\* a Recursor of a list-like datatype (a nullary constructor, then one of two
\* fields) on the scrutinee cons(h, t)
IsConsCase(term, cx) ==
    /\ IsSaturated(term, cx)
    /\ Len(CtorsOf(term, cx)) = 2
    /\ Scrutinee(term)[1] = "App"
    /\ Scrutinee(term)[2][1] = "App"
    /\ Scrutinee(term)[2][2] = Global(CtorsOf(term, cx)[2][1])

\* C5: iota rule for cons: eval(Recursor(D, off, [m, p_nil, p_cons, cons(h, t)])) is
\* eval(apply_all(p_cons, [h, Recursor(D, off, [m, p_nil, p_cons, t])])): the
\* recursive invocation is on the tail t and the premise receives h and that
\* invocation.  Stated for the offset 1, where ts[i + offset] is the premise of
\* constructor i.
C5_IotaConsRecursesOnTail ==
    (res.op = "eval" /\ IsConsCase(res.input, res.before) /\ res.input[3] = 1) =>
        LET ts == res.input[4]
            h == Scrutinee(res.input)[2][3]
            t == Scrutinee(res.input)[3]
            rec == Recursor(res.input[2], res.input[3], [ts EXCEPT ![Len(ts)] = t])
        IN  res.out = Eval(res.before, apply_all(PremiseOf(res.input, 1), <<h, rec>>))

\* the position (from 0) of the constructor named by the variable term, or -1
CtorIndex(term, ctors) ==
    IF \E i \in 1..Len(ctors) : term = Global(ctors[i][1])
    THEN (CHOOSE i \in 1..Len(ctors) : term = Global(ctors[i][1])) - 1
    ELSE 0 - 1

\* C6: premise selection: in a Recursor whose ts are [motive, one premise per
\* constructor, scrutinee] and whose offset is the one make_recursor computes,
\* ts[i + offset] is in bounds and is the premise of constructor i, so that eval on
\* the i-th constructor, nullary, returns the premise of constructor i.
C6_PremiseSelectedByOffset ==
    (/\ res.op = "eval"
     /\ IsSaturated(res.input, res.before)
     /\ res.input[3] = recursor_offset(res.before.types[res.input[2]])
     /\ CtorIndex(Scrutinee(res.input), CtorsOf(res.input, res.before)) >= 0
     /\ ~contains_key(res.before.definitions, Scrutinee(res.input)[2][2])) =>
        LET i == CtorIndex(Scrutinee(res.input), CtorsOf(res.input, res.before)) IN
        /\ i + res.input[3] < Len(res.input[4])
        /\ res.out = PremiseOf(res.input, i)

\* the head of the term is no constructor of the datatype
HeadIsNoCtor(term, ctors) ==
    /\ head(term) # None
    /\ \A i \in 1..Len(ctors) : head(term)[2] # Global(ctors[i][1])

\* C7: stuck recursor: when the evaluated scrutinee of a Recursor has a head that is
\* no constructor of the datatype (a neutral Local), eval returns the Recursor
\* rebuilt with the evaluated scrutinee in the last slot; it does not abort.
C7_StuckRecursorIsReturned ==
    (/\ res.op = "eval"
     /\ IsSaturated(res.input, res.before)
     /\ IsTerm(Eval(res.before, Scrutinee(res.input)))
     /\ HeadIsNoCtor(Eval(res.before, Scrutinee(res.input)),
                     CtorsOf(res.input, res.before))) =>
        res.out = Recursor(res.input[2], res.input[3],
                           [res.input[4] EXCEPT ![Len(res.input[4])] =
                                Eval(res.before, Scrutinee(res.input))])

\* the paths of the Qual names that occur in the term
RECURSIVE Globals(_)
Globals(t) ==
    CASE t[1] = "Var" -> IF t[2][1] = "Qual" THEN {t[2][2]} ELSE {}
      [] t[1] \in {"App", "Lambda", "Forall"} -> Globals(t[2]) \cup Globals(t[3])
      [] t[1] = "Recursor" -> UNION {Globals(t[4][i]) : i \in 1..Len(t[4])}
      [] OTHER -> {}

\* C8: eval is total: in the environment a successful type_check_module produced,
\* eval of a term whose globals are in scope returns; it never recurses without end.
C8_EvalReturns ==
    (/\ res.op = "eval"
     /\ module_res = Ok
     /\ \A n \in Globals(res.input) : in_scope(res.before, n)) =>
        res.out # Diverges

\* C9: application rule: type_infer_term on App(f, a) gives ApplicationMismatch
\* exactly when the inferred type of f does not reduce under eval to a Forall; when
\* it reduces to Forall{dom, cod}, a is checked against dom and the result is
\* cod.instantiate(a).
C9_MismatchIffNotForallAfterEval ==
    (res.op = "infer" /\ res.input[1] = "App") =>
        LET cx == res.before
            fty == type_infer_term(cx, res.input[2], counter_of(cx))
            whnf == Eval(cx, fty[1])
        IN  (IsTerm(fty[1]) /\ IsTerm(whnf)) =>
                IF whnf[1] = "Forall"
                THEN LET chk == type_check_term(cx, res.input[3], whnf[2], fty[2]) IN
                     IF IsTerm(chk[1]) THEN res.out = instantiate(whnf[3], res.input[3])
                     ELSE res.out = chk[1]
                ELSE IsErr(res.out) /\ res.out[2] = "ApplicationMismatch"

\* the names an item brings into the environment
ItemNames(def) ==
    IF def[1] = "Data"
    THEN {def[2], recursor_name(def)} \cup {def[4][i][1] : i \in 1..Len(def[4])}
    ELSE {def[2]}

\* what from_module does on the first k items of the module
PrefixRun(k) == from_module(SubSeq(module, 1, k))

\* C10: sequential short-circuit: type_check_module takes the items in the order
\* given, declaring each right before checking it; when item k is the first to fail
\* it returns that item's error, items up to k (k included) are declared in the
\* environment, and no item after k is declared or checked.
C10_StopsAtFirstFailingItem ==
    /\ declared = [i \in 1..Len(declared) |-> i]
    /\ checked = declared
    /\ pc = "failed" =>
          /\ Len(declared) = idx
          /\ IsErr(module_res)
          /\ \A i \in 1..(idx - 1) : PrefixRun(i)[2] = Ok
          /\ module_res = type_check_item(PrefixRun(idx - 1)[1], module[idx])[2]
          /\ \A i \in 1..idx : \A n \in ItemNames(module[i]) : in_scope(ty_cx, n)
          /\ \A i \in (idx + 1)..Len(module) :
                \A n \in ItemNames(module[i]) \ UNION {ItemNames(module[j]) : j \in 1..idx} :
                   ~in_scope(ty_cx, n)

\* C10, witness: type_check_module returned the error of an item that is not the
\* last, and the name of the item after it is not in scope
C10_Witness ==
    /\ pc = "failed"
    /\ idx < Len(module)
    /\ ~in_scope(ty_cx, module[idx + 1][2])

\* the name is a key of one of the four maps of the environment
present(cx, n) ==
    \/ contains_key(cx.types, n)
    \/ contains_key(cx.functions, n)
    \/ contains_key(cx.axioms, n)
    \/ contains_key(cx.definitions, n)

\* the name of a datatype and the names of its constructors
DataNames(def) == {def[2]} \cup {def[4][i][1] : i \in 1..Len(def[4])}

\* C11: declare_datatype fails when the datatype's name or one of its constructor
\* names is already present in the environment: an item of the module that
\* declares a datatype over a name the items before it brought in is where
\* type_check_module fails.
C11_DuplicateDatatypeFails ==
    \A i \in 1..Len(declared) :
        (/\ module[i][1] = "Data"
         /\ \E n \in DataNames(module[i]) : present(PrefixRun(i - 1)[1], n)) =>
            (pc = "failed" /\ idx = i /\ IsErr(module_res))

\* C12: lookup_global(n) returns definitions[n].0 when n is in definitions (also
\* when n is in axioms as well), otherwise axioms[n] when n is in axioms, otherwise
\* UnknownVariable(n); it succeeds exactly when in_scope(n), after any sequence of
\* declarations and merges.
C12_LookupPrefersDefinitions ==
    res.op = "lookup" =>
        LET cx == res.before
            n == res.input
        IN  /\ n \in DOMAIN cx.definitions => res.out = cx.definitions[n][1]
            /\ (n \notin DOMAIN cx.definitions /\ n \in DOMAIN cx.axioms) =>
                   res.out = cx.axioms[n]
            /\ (n \notin DOMAIN cx.definitions /\ n \notin DOMAIN cx.axioms) =>
                   (IsErr(res.out) /\ res.out[2] = "UnknownVariable" /\ res.out[3] = n)
            /\ IsTerm(res.out) <=> in_scope(cx, n)

\* C12, witness: a lookup, after a merge, of a name that is in definitions and in
\* axioms with two different types
C12_Witness ==
    /\ res.op = "lookup"
    /\ merges > 0
    /\ res.input \in DOMAIN res.before.definitions
    /\ res.input \in DOMAIN res.before.axioms
    /\ res.before.axioms[res.input] # res.before.definitions[res.input][1]

\* the four maps of the environment
Maps == {"types", "functions", "axioms", "definitions"}

\* C17: merge is not atomic: after merge(other) returns, Ok or Many, the key set of
\* each of the four maps of self is the union of its key set before and other's,
\* every key of other holds other's value (a colliding entry of self is
\* overwritten) and every other key holds the value it had.
C17_MergeInsertsEveryEntry ==
    [][merges' = merges + 1 =>
          LET other == from_module(res'.input)[1] IN
          \A f \in Maps :
             /\ DOMAIN ty_cx'[f] = (DOMAIN ty_cx[f]) \cup (DOMAIN other[f])
             /\ \A k \in DOMAIN other[f] : ty_cx'[f][k] = other[f][k]
             /\ \A k \in (DOMAIN ty_cx[f]) \ (DOMAIN other[f]) : ty_cx'[f][k] = ty_cx[f][k]]_vars

\* C17, witness: a merge returned Many after it overwrote an entry of self with a
\* different value of other and inserted a key self did not have
C17_Witness ==
    /\ res.op = "merge"
    /\ IsErr(res.out)
    /\ \E f \in Maps :
          \E k \in DOMAIN res.before[f] :
             /\ k \in DOMAIN from_module(res.input)[1][f]
             /\ res.before[f][k] # from_module(res.input)[1][f][k]
             /\ ty_cx[f][k] = from_module(res.input)[1][f][k]
    /\ \E f \in Maps :
          \E k \in DOMAIN ty_cx[f] : k \notin DOMAIN res.before[f]

\* the step is a call of local_with_repr
IsLocalStep == res'.op = "local" /\ res' # res

\* C13: fresh locals are never reused: over any sequence of declarations, checks,
\* merges and calls of local, local_counter never decreases, it grows by exactly
\* one for each Local handed out (a call of local_with_repr hands out one, numbered
\* by the counter before the call), and the Locals one environment has handed out
\* carry pairwise distinct numbers.
C13_FreshLocalsNeverReused ==
    /\ [](\A i, j \in 1..Len(ty_cx.issued) :
             i # j => ty_cx.issued[i] # ty_cx.issued[j])
    /\ [][/\ ty_cx'.local_counter >= ty_cx.local_counter
          /\ Len(ty_cx'.issued) >= Len(ty_cx.issued)
          /\ SubSeq(ty_cx'.issued, 1, Len(ty_cx.issued)) = ty_cx.issued
          /\ ty_cx'.local_counter - ty_cx.local_counter
                = Len(ty_cx'.issued) - Len(ty_cx.issued)
          /\ IsLocalStep =>
                /\ ty_cx'.local_counter = ty_cx.local_counter + 1
                /\ res'.out = Local(ty_cx.local_counter, res'.input)]_vars

\* C13, witness: a call of local_with_repr on an environment that has merged another
\* and has handed out locals before, in checking and in inference
C13_Witness ==
    /\ res.op = "local"
    /\ merges > 0
    /\ Len(checked) > 0
    /\ Len(ty_cx.issued) >= 3
    /\ res.out[2] = ty_cx.local_counter - 1

\* the operations that take the environment by &self
PureOps == {"eval", "infer", "def_eq", "lookup", "unfold_name", "get_main_body"}

\* the four maps of the two environments are the same
SameMaps(cx1, cx2) == \A f \in Maps : cx1[f] = cx2[f]

\* C14: checking is pure with respect to the environment: type_check_def (the check
\* of an item, after its declaration), type_infer_term, eval, def_eq, unfold_name,
\* lookup_global and get_main_body leave types, functions, axioms and definitions
\* as they were, whether they succeed or fail; local_counter is all they may
\* change, and only upwards.
C14_CheckingLeavesTheMaps ==
    [][/\ (res' # res /\ res'.op \in PureOps) =>
             (SameMaps(ty_cx', ty_cx) /\ ty_cx'.local_counter >= ty_cx.local_counter)
       /\ (pc = "checking" /\ (idx' # idx \/ pc' # pc)) =>
             /\ SameMaps(ty_cx', declare_item(ty_cx, module[idx])[1])
             /\ ty_cx'.local_counter >= ty_cx.local_counter]_vars

\* C14, witness: type_check_def rejected a function, whose declaration is in the
\* maps all the same, and a call of type_infer_term on that environment failed too
C14_Witness ==
    /\ pc = "failed"
    /\ module[idx][1] = "Fn"
    /\ contains_key(ty_cx.definitions, module[idx][2])
    /\ res.op = "infer"
    /\ IsErr(res.out)
    /\ SameMaps(res.before, ty_cx)
    /\ ty_cx.local_counter > res.before.local_counter

\* the names the first i items of the module bring into the environment
DeclaredUpTo(i) == UNION {ItemNames(module[j]) : j \in 1..i}

\* every name an item of the model can declare
AllNames == UNION {ItemNames(def) : def \in Items}

\* type_check_module stopped at item i on a name that did not resolve
FailedUnknownAt(i) ==
    pc = "failed" /\ idx = i /\ IsErr(module_res) /\ module_res[2] = "UnknownVariable"

C16_EqualIffEmptyLog ==
    res.op = "def_eq" =>
        LET t == Eval(res.before, res.input[1])
            u == Eval(res.before, res.input[2])
        IN  (IsTerm(t) /\ IsTerm(u)) =>
                LET cmp == def_eq_modulo(t, u, <<>>) IN
                /\ cmp[1] <=> cmp[2] = <<>>
                /\ ~IsPanic(res.out)
                /\ cmp[1] => res.out = t
                /\ ~cmp[1] =>
                      /\ IsErr(res.out)
                      /\ res.out[2] = "DefUnequal"
                      /\ res.out[3][1] = t
                      /\ res.out[3][2] = u
                      /\ res.out[3][3] = cmp[2]
                      /\ Len(res.out[3][3]) > 0

\* C16, witness: def_eq returned DefUnequal for two applications that differ in the
\* function, where the comparison stops before the arguments: the log holds the pair
\* of the two functions, not the pair of the two terms
C16_Witness ==
    /\ res.op = "def_eq"
    /\ IsErr(res.out)
    /\ res.out[2] = "DefUnequal"
    /\ res.out[3][1][1] = "App"
    /\ res.out[3][2][1] = "App"
    /\ res.out[3][3] = <<(<<res.out[3][1][2], res.out[3][2][2]>>)>>
    /\ res.out[3][1][2] # res.out[3][2][2]

\* C18: tokenizer progress: on every finite text, each call of next either returns
\* None or moves the lookahead forward by at least one character, the calls that
\* return an Err item included, so that repeated calls reach None.
C18_NextConsumesOrEnds ==
    [][tk'.calls = tk.calls + 1 => (tk'.last = None \/ tk'.pos > tk.pos)]_vars

====
